---------------------------- MODULE Spec2Model ----------------------------
(***************************************************************************)
(* Model of github.com/binary4cat/logger (logger.go): a facade over zap    *)
(* that keeps three package-level variables (logger, fileWirtor,           *)
(* stdWirtor), rebuilds them in InitLogger, forwards Debug..Fatal to the    *)
(* sugared logger and writes Pure/Puref straight to the two writers.       *)
(***************************************************************************)
EXTENDS Integers, Sequences, FiniteSets, TLC

VARIABLES
    loaded,      \* has the package's init() run (Go runs it before main)
    alive,       \* FALSE once os.Exit was called (Fatal)
    logger,      \* var logger *zap.SugaredLogger; NULL is the nil pointer
    fileWirtor,  \* var fileWirtor *zapcore.WriteSyncer; NULL is nil
    stdWirtor,   \* var stdWirtor *zapcore.WriteSyncer; NULL is nil
    nextBuild,   \* how many InitLogger calls have started (names each build)
    config,      \* the options and hooks of the latest InitLogger call
    call,        \* the last package function called, with its arguments
    events,      \* what that call did, in order: sink writes, hook calls, stderr, panic, exit
    outcome,     \* how that call ended for the caller
    initPc,      \* position of a goroutine inside InitLogger (concurrent specification)
    initArgs,    \* that goroutine's arguments and build number
    purePc,      \* position of a goroutine inside Pure (concurrent specification)
    pureArgs     \* that goroutine's arguments

vars == <<loaded, alive, logger, fileWirtor, stdWirtor, nextBuild, config, call, events,
          outcome, initPc, initArgs, purePc, pureArgs>>

\* the nil pointer
NULL == [nil |-> TRUE]

(***************************************************************************)
(* Bounds of the model.                                                    *)
(***************************************************************************)
\* longest list of hooks handed to InitLogger
MaxHooks == 2
\* number of InitLogger calls made by callers after the package's init()
MaxBuilds == 1

(***************************************************************************)
(* Level: type Level int8, DebugLevel = iota - 1 ... FatalLevel.           *)
(***************************************************************************)
DebugLevel == -1
InfoLevel == 0
WarnLevel == 1
ErrorLevel == 2
DPanicLevel == 3
PanicLevel == 4
FatalLevel == 5
Levels == DebugLevel..FatalLevel

\* zapcore.CapitalLevelEncoder, chosen in getEncoder
CapitalLevel(l) ==
    CASE l = DebugLevel -> "DEBUG"
      [] l = InfoLevel -> "INFO"
      [] l = WarnLevel -> "WARN"
      [] l = ErrorLevel -> "ERROR"
      [] l = DPanicLevel -> "DPANIC"
      [] l = PanicLevel -> "PANIC"
      [] l = FatalLevel -> "FATAL"

(***************************************************************************)
(* Values of type interface{} handed to the variadic functions: a string   *)
(* or an int, each with its %v text.                                       *)
(***************************************************************************)
StrV(s) == [t |-> "string", s |-> s]
IntV(s) == [t |-> "int", s |-> s]

\* Template pieces: literal text or a verb
Lit(s) == [k |-> "lit", s |-> s]
Verb(s) == [k |-> "verb", s |-> s]

ArgLists ==
    { << >>,
      <<StrV("a")>>,
      <<StrV("11"), IntV("22"), StrV("33")>>,
      <<IntV("1"), IntV("2")>> }

LogArgLists == { <<StrV("debug")>>, <<IntV("1"), IntV("2")>> }

Templates == { <<Verb("%s"), Lit(":"), Verb("%d")>> }

FmtArgLists == { <<StrV("hhh"), IntV("333")>>, <<IntV("7")>> }

\* fmt.Sprintln: operands separated by a space, newline appended
RECURSIVE SpaceJoin(_)
SpaceJoin(args) ==
    IF Len(args) = 0 THEN ""
    ELSE IF Len(args) = 1 THEN args[1].s
    ELSE args[1].s \o " " \o SpaceJoin(Tail(args))

Sprintln(args) == SpaceJoin(args) \o "\n"

\* fmt.Sprint: a space between two operands only when neither is a string
RECURSIVE Sprint(_)
Sprint(args) ==
    IF Len(args) = 0 THEN ""
    ELSE IF Len(args) = 1 THEN args[1].s
    ELSE args[1].s
         \o (IF args[1].t # "string" /\ args[2].t # "string" THEN " " ELSE "")
         \o Sprint(Tail(args))

\* one verb applied to one operand
FormatVerb(verb, v) ==
    IF verb = "%v" \/ (verb = "%s" /\ v.t = "string") \/ (verb = "%d" /\ v.t = "int")
    THEN v.s
    ELSE "%!" \o SubSeq(verb, 2, 2) \o "(" \o v.t \o "=" \o v.s \o ")"

RECURSIVE ExtraList(_)
ExtraList(args) ==
    IF Len(args) = 0 THEN ""
    ELSE args[1].t \o "=" \o args[1].s
         \o (IF Len(args) > 1 THEN ", " ELSE "") \o ExtraList(Tail(args))

\* fmt.Sprintf over a template given as its pieces
RECURSIVE Sprintf(_, _)
Sprintf(template, args) ==
    IF Len(template) = 0
    THEN (IF Len(args) = 0 THEN "" ELSE "%!(EXTRA " \o ExtraList(args) \o ")")
    ELSE IF template[1].k = "lit"
    THEN template[1].s \o Sprintf(Tail(template), args)
    ELSE IF Len(args) = 0
    THEN "%!" \o SubSeq(template[1].s, 2, 2) \o "(MISSING)" \o Sprintf(Tail(template), args)
    ELSE FormatVerb(template[1].s, args[1]) \o Sprintf(Tail(template), Tail(args))

\* zap's getMessage, used by every Debug..Fatal / *f / *w function:
\* the template alone, Sprintf of it, a lone string, or Sprint of the operands
TemplateText(template) ==
    Sprintf(template, << >>)

getMessage(template, fmtArgs) ==
    IF Len(fmtArgs) = 0 THEN TemplateText(template)
    ELSE IF Len(template) # 0 THEN Sprintf(template, fmtArgs)
    ELSE IF Len(fmtArgs) = 1 /\ fmtArgs[1].t = "string" THEN fmtArgs[1].s
    ELSE Sprint(fmtArgs)

\* the key-value pairs of the *w functions as the console encoder prints them
JSONValue(v) == IF v.t = "string" THEN "\"" \o v.s \o "\"" ELSE v.s

RECURSIVE JSONPairs(_)
JSONPairs(context) ==
    IF Len(context) < 2 THEN ""
    ELSE "\"" \o context[1].s \o "\": " \o JSONValue(context[2])
         \o (IF Len(context) > 2 THEN ", " ELSE "")
         \o JSONPairs(Tail(Tail(context)))

ContextLists == { << >>, <<StrV("k"), IntV("1")>> }

(***************************************************************************)
(* Options and the objects InitLogger builds from them.                    *)
(***************************************************************************)
Filenames == {"", "./log.log"}

\* GetDefault(filename): 100 MB, 10 backups, 30 days, no compression
GetDefault(filename) ==
    [NotStdout |-> FALSE, Level |-> InfoLevel, Filename |-> filename,
     MaxSize |-> 100, MaxBackups |-> 10, MaxAge |-> 30, Compress |-> FALSE]

\* the options init() passes
InitOptions ==
    [NotStdout |-> FALSE, Level |-> DebugLevel, Filename |-> "",
     MaxSize |-> 0, MaxBackups |-> 0, MaxAge |-> 0, Compress |-> FALSE]

\* options a caller passes: GetDefault with NotStdout and Level set
OptionsSet ==
    { [GetDefault(f) EXCEPT !.NotStdout = n, !.Level = l] :
        f \in Filenames, n \in BOOLEAN, l \in Levels }

\* the hooks a caller may register, named by what they do when invoked
HookIds == {"hNil", "hErr", "hPanic"}

HookResult(h) ==
    CASE h = "hNil" -> "nil"
      [] h = "hErr" -> "error"
      [] h = "hPanic" -> "panic"

RECURSIVE SeqsUpTo(_, _)
SeqsUpTo(S, n) ==
    IF n = 0 THEN { << >> }
    ELSE LET shorter == SeqsUpTo(S, n - 1)
         IN  shorter \cup { Append(q, x) : q \in shorter, x \in S }

HookLists == SeqsUpTo(HookIds, MaxHooks)

\* getLogWriter: a lumberjack.Logger with the options' file settings, as a WriteSyncer
getLogWriter(opt, b) ==
    [sink |-> "file", build |-> b, Filename |-> opt.Filename, MaxSize |-> opt.MaxSize,
     MaxBackups |-> opt.MaxBackups, MaxAge |-> opt.MaxAge, Compress |-> opt.Compress]

\* zapcore.AddSync(os.Stdout)
StdSyncer(b) == [sink |-> "stdout", build |-> b]

\* zapcore.NewCore(encoder, ws, zapcore.Level(opt.Level))
NewCore(ws, level) == [sink |-> ws.sink, build |-> ws.build, level |-> level]

\* the three branches of InitLogger that choose treeCore (a tee is the list of its cores)
TreeCore(opt, fw, sw) ==
    IF opt.NotStdout /\ opt.Filename # ""
    THEN <<NewCore(fw, opt.Level)>>
    ELSE IF opt.Filename = "" /\ ~opt.NotStdout
    THEN <<NewCore(sw, opt.Level)>>
    ELSE <<NewCore(sw, opt.Level), NewCore(fw, opt.Level)>>

\* which branches assign stdWirtor
SetsStdWirtor(opt) == ~(opt.NotStdout /\ opt.Filename # "")

\* the value the range loop's single variable `hook` holds once the loop is over
\* (go.mod: go 1.19, one variable for the whole loop, captured by every closure)
LoopVariable(hooks) == hooks[Len(hooks)]

\* hooksHandler: one closure per hook, each calling whatever `hook` holds when it runs
hooksHandler(hooks) ==
    [i \in 1..Len(hooks) |-> LoopVariable(hooks)]

\* zap.New(treeCore, AddCaller()).WithOptions(AddCallerSkip(1), Hooks(...)).Sugar()
NewLogger(cores, hooks, b) ==
    [build |-> b, cores |-> cores, funcs |-> hooksHandler(hooks), callerSkip |-> 1]

(***************************************************************************)
(* What one logging call does with a logger.                               *)
(***************************************************************************)
\* the time and the call site of the entry (AddCaller with the wrapper frame skipped)
Now == "2006-01-02T15:04:05.000Z0700"
CallSite == [File |-> "main.go", Line |-> 30, Text |-> "main.go:30"]

NewEntry(lvl, msg) ==
    [Level |-> lvl, Time |-> Now, LoggerName |-> "", Message |-> msg, Stack |-> "",
     File |-> CallSite.File, Line |-> CallSite.Line]

\* getEncoder: console encoder, ISO8601 time, capital level, caller, message, fields
EncodeEntry(ent, context) ==
    ent.Time \o "\t" \o CapitalLevel(ent.Level) \o "\t" \o CallSite.Text \o "\t"
    \o ent.Message
    \o (IF Len(context) = 0 THEN "" ELSE "\t{" \o JSONPairs(context) \o "}")
    \o "\n"

WriteEvent(ws, bytes) ==
    [kind |-> "write", sink |-> ws.sink, build |-> ws.build, bytes |-> bytes]

\* the LogInfo a closure of hooksHandler hands to the hook
LogInfo(ent) ==
    [Level |-> ent.Level, Time |-> ent.Time, LoggerName |-> ent.LoggerName,
     Message |-> ent.Message, Stack |-> ent.Stack, File |-> ent.File, Line |-> ent.Line]

HookEvent(h, ent) == [kind |-> "hook", hook |-> h, info |-> LogInfo(ent)]

\* a level check that lets through only what lies above the minimum
EnabledAbove(core, lvl) == lvl > core.level

\* the core's level check
Enabled(core, lvl) == lvl >= core.level

\* the registered closures run in order; an error is collected, a panic unwinds
RECURSIVE RunHooks(_, _)
RunHooks(funcs, ent) ==
    IF Len(funcs) = 0 THEN [events |-> << >>, err |-> FALSE, panicked |-> FALSE]
    ELSE LET h == funcs[1]
             ev == HookEvent(h, ent)
         IN  IF HookResult(h) = "panic"
             THEN [events |-> <<ev>>, err |-> FALSE, panicked |-> TRUE]
             ELSE LET rest == RunHooks(Tail(funcs), ent)
                  IN  [events |-> <<ev>> \o rest.events,
                       err |-> (HookResult(h) = "error") \/ rest.err,
                       panicked |-> rest.panicked]

\* how the call ends once the entry is written: Panic panics, Fatal exits
After(lvl) ==
    IF lvl = PanicLevel THEN "panic"
    ELSE IF lvl = FatalLevel THEN "exit"
    ELSE "return"

AfterEvents(lvl) ==
    IF After(lvl) = "return" THEN << >> ELSE <<[kind |-> After(lvl)]>>

\* logger.Debug .. logger.Fatalw on the sugared logger lg: events and outcome
Log(lg, lvl, template, fmtArgs, context) ==
    LET accepting == SelectSeq(lg.cores, LAMBDA c : Enabled(c, lvl))
        ent == NewEntry(lvl, getMessage(template, fmtArgs))
        writes == [i \in 1..Len(accepting) |->
                      WriteEvent(accepting[i], EncodeEntry(ent, context))]
        hooked == RunHooks(lg.funcs, ent)
    IN  IF Len(accepting) = 0
        THEN [events |-> AfterEvents(lvl), outcome |-> After(lvl)]
        ELSE IF hooked.panicked
        THEN [events |-> writes \o hooked.events \o <<[kind |-> "panic"]>>,
              outcome |-> "hookpanic"]
        ELSE [events |-> writes \o hooked.events
                         \o (IF hooked.err THEN <<[kind |-> "stderr"]>> ELSE << >>)
                         \o AfterEvents(lvl),
              outcome |-> After(lvl)]

(***************************************************************************)
(* Pure and Puref.                                                         *)
(***************************************************************************)
\* the arguments printed with fmt.Sprint: no newline, spaces only between non-strings
PureBytesSprint(args) == Sprint(args)

\* []byte(fmt.Sprintln(args...))
PureBytes(args) == Sprintln(args)

\* []byte(fmt.Sprintf(msg, args...) + "\n")
PurefBytes(msg, args) == Sprintf(msg, args) \o "\n"

\* the two nil checks of Pure / Puref, file writer first
RawWrites(fw, sw, bytes) ==
    (IF fw # NULL THEN <<WriteEvent(fw, bytes)>> ELSE << >>)
    \o (IF sw # NULL THEN <<WriteEvent(sw, bytes)>> ELSE << >>)

(***************************************************************************)
(* The state before the package is loaded, and the operations.             *)
(***************************************************************************)
NoCall == [op |-> "none"]

Init ==
    /\ loaded = FALSE
    /\ alive = TRUE
    /\ logger = NULL
    /\ fileWirtor = NULL
    /\ stdWirtor = NULL
    /\ nextBuild = 0
    /\ config = NULL
    /\ call = NoCall
    /\ events = << >>
    /\ outcome = "none"
    /\ initPc = "idle"
    /\ initArgs = NoCall
    /\ purePc = "idle"
    /\ pureArgs = NoCall

\* the assignments InitLogger makes to the three package variables
Build(opt, hooks, b) ==
    LET fw == getLogWriter(opt, b)
        sw == StdSyncer(b)
    IN  /\ fileWirtor' = fw
        /\ stdWirtor' = IF SetsStdWirtor(opt) THEN sw ELSE stdWirtor
        /\ logger' = NewLogger(TreeCore(opt, fw, sw), hooks, b)
        /\ config' = [opt |-> opt, hooks |-> hooks]

\* an init() that builds nothing
PkgInitNoBuild ==
    /\ ~loaded
    /\ loaded' = TRUE
    /\ UNCHANGED <<alive, logger, fileWirtor, stdWirtor, nextBuild, config, call, events,
                   outcome, initPc, initArgs, purePc, pureArgs>>

\* func init(): runs once, before any caller's code
PkgInit ==
    /\ ~loaded
    /\ loaded' = TRUE
    /\ Build(InitOptions, << >>, nextBuild)
    /\ nextBuild' = nextBuild + 1
    /\ UNCHANGED <<alive, call, events, outcome, initPc, initArgs, purePc, pureArgs>>

\* the single caller may call a function of the package once the package is
\* loaded, while the process runs and it is not inside another call
Callable ==
    /\ loaded
    /\ alive
    /\ call = NoCall
    /\ initPc = "idle"
    /\ purePc = "idle"

\* InitLogger returns nothing: the caller goes on at once
InitLogger(opt, hooks) ==
    /\ Callable
    /\ nextBuild <= MaxBuilds
    /\ Build(opt, hooks, nextBuild)
    /\ nextBuild' = nextBuild + 1
    /\ UNCHANGED <<loaded, alive, call, events, outcome, initPc, initArgs, purePc, pureArgs>>

GetLogWirter ==
    /\ Callable
    /\ call' = [op |-> "GetLogWirter"]
    /\ events' = IF logger = NULL
                 THEN <<[kind |-> "result", writer |-> NULL, err |-> TRUE]>>
                 ELSE <<[kind |-> "result", writer |-> fileWirtor, err |-> FALSE]>>
    /\ outcome' = "return"
    /\ UNCHANGED <<loaded, alive, logger, fileWirtor, stdWirtor, nextBuild, config,
                   initPc, initArgs, purePc, pureArgs>>

\* the effect of one of the 21 level functions on the caller and the process
\* (a method call on a nil *zap.SugaredLogger dereferences nil and panics)
Emit(lvl, variant, template, fmtArgs, context) ==
    LET r == IF logger = NULL
             THEN [events |-> <<[kind |-> "panic"]>>, outcome |-> "nilpanic"]
             ELSE Log(logger, lvl, template, fmtArgs, context)
    IN  /\ Callable
        /\ call' = [op |-> "Log", level |-> lvl, variant |-> variant,
                    template |-> template, args |-> fmtArgs, context |-> context]
        /\ events' = r.events
        /\ outcome' = r.outcome
        /\ alive' = (r.outcome # "exit")
        /\ UNCHANGED <<loaded, logger, fileWirtor, stdWirtor, nextBuild, config,
                       initPc, initArgs, purePc, pureArgs>>

\* Debug, Info, Warn, Error, DPanic, Panic, Fatal
LogArgs(lvl, args) == Emit(lvl, "", << >>, args, << >>)

\* Debugf .. Fatalf
LogF(lvl, template, args) == Emit(lvl, "f", template, args, << >>)

\* Debugw .. Fatalw
LogW(lvl, msg, keysAndValues) == Emit(lvl, "w", <<Lit(msg)>>, << >>, keysAndValues)

Pure(args) ==
    /\ Callable
    /\ call' = [op |-> "Pure", args |-> args]
    /\ events' = RawWrites(fileWirtor, stdWirtor, PureBytes(args))
    /\ outcome' = "return"
    /\ UNCHANGED <<loaded, alive, logger, fileWirtor, stdWirtor, nextBuild, config,
                   initPc, initArgs, purePc, pureArgs>>

Puref(msg, args) ==
    /\ Callable
    /\ call' = [op |-> "Puref", template |-> msg, args |-> args]
    /\ events' = RawWrites(fileWirtor, stdWirtor, PurefBytes(msg, args))
    /\ outcome' = "return"
    /\ UNCHANGED <<loaded, alive, logger, fileWirtor, stdWirtor, nextBuild, config,
                   initPc, initArgs, purePc, pureArgs>>

\* the call is over (returned, or its panic was recovered) and the caller goes on
Continue ==
    /\ alive
    /\ call # NoCall
    /\ initPc = "idle"
    /\ purePc = "idle"
    /\ call' = NoCall
    /\ events' = << >>
    /\ outcome' = "none"
    /\ UNCHANGED <<loaded, alive, logger, fileWirtor, stdWirtor, nextBuild, config,
                   initPc, initArgs, purePc, pureArgs>>

Next ==
    \/ PkgInit
    \/ \E opt \in OptionsSet, hooks \in HookLists : InitLogger(opt, hooks)
    \/ GetLogWirter
    \/ \E lvl \in Levels, args \in LogArgLists : LogArgs(lvl, args)
    \/ \E lvl \in Levels, t \in Templates, args \in FmtArgLists : LogF(lvl, t, args)
    \/ \E lvl \in Levels, kv \in ContextLists : LogW(lvl, "msg", kv)
    \/ \E args \in ArgLists : Pure(args)
    \/ \E t \in Templates, args \in FmtArgLists : Puref(t, args)
    \/ Continue

Spec == Init /\ [][Next]_vars

(***************************************************************************)
(* Two goroutines: one inside InitLogger, one logging. Nothing in the      *)
(* package orders their reads and writes of logger, fileWirtor and         *)
(* stdWirtor, so each assignment and each read is a step of its own.       *)
(***************************************************************************)
RaceArgLists == { <<StrV("a")>> }

\* line 87: fileWirtor = getLogWriter(opt)
InitLogger87(opt, hooks) ==
    /\ loaded /\ alive
    /\ initPc = "idle"
    /\ nextBuild <= MaxBuilds
    /\ fileWirtor' = getLogWriter(opt, nextBuild)
    /\ initArgs' = [op |-> "InitLogger", opt |-> opt, hooks |-> hooks, build |-> nextBuild]
    /\ initPc' = "l90"
    /\ nextBuild' = nextBuild + 1
    /\ UNCHANGED <<loaded, alive, logger, stdWirtor, config, call, events, outcome,
                   purePc, pureArgs>>

\* lines 88-102: the branch assigns stdWirtor (or not) and builds treeCore from *fileWirtor
InitLogger90 ==
    /\ initPc = "l90"
    /\ LET sw == StdSyncer(initArgs.build)
       IN  /\ stdWirtor' = IF SetsStdWirtor(initArgs.opt) THEN sw ELSE stdWirtor
           /\ initArgs' = [op |-> "InitLogger", opt |-> initArgs.opt,
                           hooks |-> initArgs.hooks, build |-> initArgs.build,
                           treeCore |-> TreeCore(initArgs.opt, fileWirtor, sw)]
    /\ initPc' = "l105"
    /\ UNCHANGED <<loaded, alive, logger, fileWirtor, nextBuild, config, call, events,
                   outcome, purePc, pureArgs>>

\* lines 105-106: logger = zl.Sugar()
InitLogger105 ==
    /\ initPc = "l105"
    /\ logger' = [build |-> initArgs.build, cores |-> initArgs.treeCore,
                  funcs |-> hooksHandler(initArgs.hooks), callerSkip |-> 1]
    /\ config' = [opt |-> initArgs.opt, hooks |-> initArgs.hooks]
    /\ initPc' = "idle"
    /\ initArgs' = NoCall
    /\ UNCHANGED <<loaded, alive, fileWirtor, stdWirtor, nextBuild, call, events,
                   outcome, purePc, pureArgs>>

\* the logging goroutine is between two calls
LoggerIdle ==
    /\ loaded
    /\ alive
    /\ call = NoCall
    /\ purePc = "idle"

\* lines 287-290 of Pure: read fileWirtor, write
Pure287(args) ==
    /\ LoggerIdle
    /\ pureArgs' = [op |-> "Pure", args |-> args]
    /\ events' = RawWrites(fileWirtor, NULL, PureBytes(args))
    /\ purePc' = "l291"
    /\ UNCHANGED <<loaded, alive, logger, fileWirtor, stdWirtor, nextBuild, config,
                   call, outcome, initPc, initArgs>>

\* lines 291-294 of Pure: read stdWirtor, write, return
Pure291 ==
    /\ purePc = "l291"
    /\ events' = events \o RawWrites(NULL, stdWirtor, PureBytes(pureArgs.args))
    /\ call' = pureArgs
    /\ outcome' = "return"
    /\ purePc' = "idle"
    /\ pureArgs' = NoCall
    /\ UNCHANGED <<loaded, alive, logger, fileWirtor, stdWirtor, nextBuild, config,
                   initPc, initArgs>>

\* a level function reads logger once and hands the entry to that logger
RaceLog(lvl, args) ==
    LET r == Log(logger, lvl, << >>, args, << >>)
    IN  /\ LoggerIdle
        /\ call' = [op |-> "Log", level |-> lvl, variant |-> "", template |-> << >>,
                    args |-> args, context |-> << >>]
        /\ events' = r.events
        /\ outcome' = r.outcome
        /\ alive' = (r.outcome # "exit")
        /\ UNCHANGED <<loaded, logger, fileWirtor, stdWirtor, nextBuild, config,
                       initPc, initArgs, purePc, pureArgs>>

\* the logging goroutine goes on to its next call
RaceContinue ==
    /\ alive
    /\ call # NoCall
    /\ purePc = "idle"
    /\ call' = NoCall
    /\ events' = << >>
    /\ outcome' = "none"
    /\ UNCHANGED <<loaded, alive, logger, fileWirtor, stdWirtor, nextBuild, config,
                   initPc, initArgs, purePc, pureArgs>>

RaceNext ==
    \/ PkgInit
    \/ \E opt \in OptionsSet, hooks \in HookLists : InitLogger87(opt, hooks)
    \/ InitLogger90
    \/ InitLogger105
    \/ \E args \in RaceArgLists : Pure287(args)
    \/ Pure291
    \/ \E lvl \in Levels, args \in RaceArgLists : RaceLog(lvl, args)
    \/ RaceContinue

RaceSpec == Init /\ [][RaceNext]_vars

(***************************************************************************)
(* What the last call did, read off its events.                            *)
(***************************************************************************)
WriteIdx == { i \in 1..Len(events) : events[i].kind = "write" }
HookIdx == { i \in 1..Len(events) : events[i].kind = "hook" }
EndIdx == { i \in 1..Len(events) : events[i].kind \in {"panic", "exit"} }

SinksWritten == { events[i].sink : i \in WriteIdx }
WritesTo(sink) == Cardinality({ i \in WriteIdx : events[i].sink = sink })
HooksInvoked == SelectSeq(events, LAMBDA e : e.kind = "hook")
HookOrder == [i \in 1..Len(HooksInvoked) |-> HooksInvoked[i].hook]

\* the sinks the options ask for: stdout unless NotStdout, the file when Filename is set
ConfiguredSinks(opt) ==
    (IF opt.NotStdout THEN {} ELSE {"stdout"})
    \cup (IF opt.Filename = "" THEN {} ELSE {"file"})

\* the sinks of the active logger's cores
PipelineSinks == { logger.cores[i].sink : i \in 1..Len(logger.cores) }

Distinct(q) == \A i, j \in 1..Len(q) : q[i] = q[j] => i = j
Returning(q) == \A i \in 1..Len(q) : HookResult(q[i]) # "panic"

LogCall == call.op = "Log"
Accepted == LogCall /\ call.level >= config.opt.Level
RawCall == call.op \in {"Pure", "Puref"}

\* the bytes a level function hands to a sink for the call's arguments
ExpectedEntry ==
    EncodeEntry(NewEntry(call.level, getMessage(call.template, call.args)), call.context)

(***************************************************************************)
(* C1: for n >= 1 distinct registered hooks (here: hooks that return, with *)
(* or without an error), every accepted entry invokes each registered hook *)
(* exactly once, in registration order.                                    *)
(***************************************************************************)
C1_EachHookOnceInOrder ==
    (Accepted /\ Len(config.hooks) >= 1 /\ Distinct(config.hooks) /\ Returning(config.hooks))
        => HookOrder = config.hooks

(***************************************************************************)
(* C2: an emission below the configured minimum level writes to no sink    *)
(* and invokes no hook; an emission at or above it writes the encoded      *)
(* entry exactly once to each sink the options configure.                  *)
(***************************************************************************)
C2_LevelFiltering ==
    LogCall =>
        IF call.level < config.opt.Level
        THEN WriteIdx = {} /\ HookIdx = {}
        ELSE /\ \A sink \in ConfiguredSinks(config.opt) : WritesTo(sink) = 1
             /\ \A i \in WriteIdx : events[i].bytes = ExpectedEntry

C2_Witness ==
    /\ Accepted
    /\ call.level = config.opt.Level
    /\ call.level = WarnLevel
    /\ ConfiguredSinks(config.opt) = {"stdout", "file"}
    /\ WritesTo("stdout") = 1
    /\ WritesTo("file") = 1

(***************************************************************************)
(* C3: the sinks of the pipeline InitLogger builds are exactly those the   *)
(* options configure: stdout iff NotStdout is false, the file iff Filename *)
(* is non-empty (none when neither is configured).                         *)
(***************************************************************************)
C3_SinkSetFromOptions ==
    loaded => PipelineSinks = ConfiguredSinks(config.opt)

(***************************************************************************)
(* C4: Pure and Puref write to exactly the sinks of the active pipeline.   *)
(***************************************************************************)
C4_RawSameSinks ==
    RawCall => SinksWritten = PipelineSinks

(***************************************************************************)
(* C5: Pure / Puref invoke no hook, are never suppressed by the level      *)
(* filter, and hand each sink exactly the space-joined (template-formatted)*)
(* values followed by a newline, whatever the minimum level and the hooks. *)
(***************************************************************************)
C5_RawBypass ==
    RawCall =>
        /\ HookIdx = {}
        /\ WriteIdx # {}
        /\ WriteIdx = 1..Len(events)
        /\ outcome = "return"
        /\ \A i \in WriteIdx :
              events[i].bytes =
                  IF call.op = "Pure"
                  THEN SpaceJoin(call.args) \o "\n"
                  ELSE Sprintf(call.template, call.args) \o "\n"
        /\ (call.op = "Pure" /\ call.args = <<StrV("11"), IntV("22"), StrV("33")>>)
              => \A i \in WriteIdx : events[i].bytes = "11 22 33\n"
        /\ (call.op = "Puref" /\ call.args = <<StrV("hhh"), IntV("333")>>)
              => \A i \in WriteIdx : events[i].bytes = "hhh:333\n"

C5_Witness ==
    /\ call.op = "Pure"
    /\ call.args = <<StrV("11"), IntV("22"), StrV("33")>>
    /\ config.opt.Level = FatalLevel
    /\ Len(config.hooks) = MaxHooks
    /\ WriteIdx # {}

(***************************************************************************)
(* C6 as stated: GetLogWirter called by a caller that never called         *)
(* InitLogger returns the "not initialized" error.                         *)
(***************************************************************************)
C6_ErrorWithoutInitLogger ==
    (call.op = "GetLogWirter" /\ nextBuild = 1) => events[1].err

(***************************************************************************)
(* C6 as amended: the package's init() builds a pipeline before any caller *)
(* runs, so every GetLogWirter call returns the current file writer and a  *)
(* nil error; the "not initialized" outcome is never reached.              *)
(***************************************************************************)
C6_NeverUninitialized ==
    call.op = "GetLogWirter" =>
        /\ Len(events) = 1
        /\ ~events[1].err
        /\ events[1].writer = fileWirtor
        /\ events[1].writer # NULL

C6_Witness ==
    /\ call.op = "GetLogWirter"
    /\ nextBuild = 1
    /\ ~events[1].err

(***************************************************************************)
(* C7: a failing hook (an error or a panic) is caught: the hooks           *)
(* registered after it are still invoked, the entry is still written, and  *)
(* the call ends for the caller as it would without the failure.           *)
(***************************************************************************)
C7_HookIsolation ==
    (Accepted /\ Distinct(config.hooks)) =>
        /\ outcome = After(call.level)
        /\ WriteIdx # {}
        /\ \A i, j \in 1..Len(config.hooks) :
              (i < j /\ HookResult(config.hooks[i]) # "nil")
                  => \E k \in HookIdx : events[k].hook = config.hooks[j]

(***************************************************************************)
(* C8: when an accepted Panic or Fatal emission panics or exits, the entry *)
(* has been written to every configured sink and every registered hook has *)
(* been invoked for it, before that.                                       *)
(***************************************************************************)
C8_TerminationLast ==
    (Accepted /\ call.level \in {PanicLevel, FatalLevel} /\ outcome \in {"panic", "exit"}) =>
        \A t \in EndIdx :
            /\ \A sink \in ConfiguredSinks(config.opt) :
                  \E i \in WriteIdx : i < t /\ events[i].sink = sink
            /\ \A h \in 1..Len(config.hooks) :
                  \E k \in HookIdx : k < t /\ events[k].hook = config.hooks[h]

(***************************************************************************)
(* C9: a Pure call that runs while InitLogger runs is served by one        *)
(* complete pipeline: the writers it writes to belong to the same build.   *)
(***************************************************************************)
C9_AtomicRebuild ==
    (call.op = "Pure" /\ purePc = "idle") =>
        \A i, j \in WriteIdx : events[i].build = events[j].build

=============================================================================
